---- MODULE Spec2Model ----
(***************************************************************************)
(* Tuneminal: the AudioPlayer playback state machine and its position      *)
(* tracker goroutines.                                                     *)
(*                                                                         *)
(* Two variants of AudioPlayer exist in the repository: the one with       *)
(* volume and SeekTo (variant "part_007") and pkg/player/player.go         *)
(* (variant "pkg_player"), whose Resume starts a new tracker and which has *)
(* neither SeekTo nor SetVolume.                                           *)
(*                                                                         *)
(* Time is counted in ticker periods of 100 ms.  Every handler runs under  *)
(* the player's mutex and is one atomic action; a tracker goroutine is a   *)
(* process of its own whose tick body (also under the mutex) is one        *)
(* action.  Wall-clock time advances independently of the goroutines, so a *)
(* tick may be handled late (LoadFile holds the mutex while it decodes):   *)
(* the value it writes is the time elapsed since the tracker's own         *)
(* startTime at the moment it is handled.  A goroutine begins, and takes   *)
(* its startTime, within the ticker period in which it is spawned.         *)
(*                                                                         *)
(* The lyric lookups (findCurrentLyricIndex, FindLyricAtTime) are pure     *)
(* functions, applied to every validly ordered timeline under SpecLyrics.  *)
(* The App (its playback handlers and its karaoke scoring) runs under      *)
(* SpecApp, with the AudioPlayer as its environment.                       *)
(***************************************************************************)
EXTENDS Integers, FiniteSets, Sequences, Bags, TLC

\* ---------------------------------------------------------------- bounds
\* Longest decoded file, in stereo frames.
MaxFrames == 2
\* Number of tracker goroutines that may be alive at once.
MaxTrackers == 2
\* Longest lyric timeline, in lines, and latest timestamp, in ticker periods.
MaxLines == 3
MaxTime == 3
\* The hits of one scoring session are counted up to MaxStreak.
MaxStreak == 6
\* trackRealPlayback goroutines alive at a time
MaxTasks == 2

\* ------------------------------------------------------ program constants
\* time.Second expressed in ticker periods (ticker period: 100 ms).
TicksPerSecond == 10
\* sampleRate and channels of a new AudioPlayer.
DefaultSampleRate == 44100
DefaultChannels == 2
\* volume of a new AudioPlayer, in percent.
DefaultVolume == 100

\* ----------------------------------------------------------------- inputs
\* Sample rates (frames per second) and channel counts of the decoded files.
SampleRates == {2}
ChannelCounts == {2}
\* The decoded files LoadFile may be given.
Files == [frames : 0..MaxFrames, sampleRate : SampleRates, channels : ChannelCounts]
\* What LoadFile meets on its way: success or one of its error returns.
LoadOutcomes == {"ok", "notfound", "unsupported", "decodeerr", "initerr"}

\* len(pcmData) built by convertToRawPCM: 2 bytes per sample and channel.
PCMLen(f) == f.frames * 2 * f.channels

\* p.duration as LoadFile computes it, in ticks: whole seconds only.
DurationOf(len, rate, ch) == ((len \div 2) \div (rate * ch)) * TicksPerSecond

MaxOf(S) == CHOOSE x \in S : \A y \in S : y <= x
\* Longest duration any file of Files can have.
MaxDuration == MaxOf({DurationOf(PCMLen(f), f.sampleRate, f.channels) : f \in Files})
\* The elapsed times are counted up to one tick past the longest duration:
\* from there on every comparison with a duration gives the same result.
MaxElapsed == MaxDuration + 1
\* The time since the last SeekTo is counted up to SinceCap ticks.
SinceCap == 2
\* Arguments of SeekTo, in ticks: below 0, inside a track, above every
\* duration.
SeekTargets == {0 - 1, 3, MaxDuration + 1}
\* Arguments of SetVolume, in percent: below, inside and above the valid
\* range.
VolumeInputs == {0 - 50, 50, 150}

Min(a, b) == IF a <= b THEN a ELSE b

\* Sample values of a decoded frame, in percent of full scale (float64 1.0
\* is 100): inside and outside [-1, 1].
SampleValues == {0 - 150, 0 - 50, 50}
\* A [2]float64 frame: left and right sample.
SampleFrames == SampleValues \X SampleValues
\* Sample rates and channel counts a decoded format may report.
StreamRates == {0, 1}
StreamChannels == {0, 1, 2}
\* The decoded streams: a format and up to MaxFrames frames.
DecodedStreams ==
    [rate : StreamRates, channels : StreamChannels,
     samples : UNION {[1..n -> SampleFrames] : n \in 0..MaxFrames}]

\* A LyricLine as loadLyricsFromFile appends it: Index is its place in the
\* file, Text is stood for by that place, both flags are false.
LoadedLine(time, index) ==
    [Time |-> time, Text |-> index, Index |-> index,
     IsActive |-> FALSE, IsHit |-> FALSE]
\* The lines a lyric file with the timestamps ts gives.
LoadedLines(ts) == [i \in DOMAIN ts |-> LoadedLine(ts[i], i - 1)]
\* ValidateLyrics' order check: for i >= 1, lyrics[i].Time >= lyrics[i-1].Time
Chronological(ts) == \A i \in 2..Len(ts) : ts[i] >= ts[i - 1]
\* The timestamp lists of the validly ordered timelines.
ValidTimestamps ==
    UNION {{ts \in [1..n -> 0..MaxTime] : Chronological(ts)} : n \in 0..MaxLines}
\* Arguments of the lyric lookups: before, inside and after every timeline.
LookupTimes == (0 - 1)..(MaxTime + 1)
\* The song library of the App: a song with a lyric file of three timed
\* lines and a song without one.  Timestamps and Duration in ticker periods.
Songs ==
    << [LyricsPath |-> "lrc", timestamps |-> <<0, 1, 2>>, Duration |-> 3],
       [LyricsPath |-> "", timestamps |-> <<>>, Duration |-> 2] >>
\* A library whose first song has a lyric file with a timestamp smaller than
\* its predecessor.
UnorderedSongs ==
    << [LyricsPath |-> "lrc", timestamps |-> <<2, 1>>, Duration |-> 3],
       [LyricsPath |-> "", timestamps |-> <<>>, Duration |-> 2] >>
\* What a.player.LoadFile and a.player.Play return to the App.
CallOutcomes == {"ok", "err"}
\* What a.player.GetPosition() may return to the App's tracker.
\* Positions at which a hit chance is computed, in ticker periods: one
\* second, through every beat phase and back to the first.
BeatPositions == 0..10
AppPositions == 0..MaxOf({Songs[i].Duration : i \in DOMAIN Songs})
\* The nil *LyricEntry.
Nil == [Time |-> 0 - 1, Text |-> 0 - 1]
\* The []LyricEntry with the times and texts of the lines.
Entries(lines) == [i \in DOMAIN lines |-> [Time |-> lines[i].Time, Text |-> lines[i].Text]]

VARIABLES
    variant,      \* which AudioPlayer source is running
    isLoaded, isPlaying, isPaused,
    hasPlayer,    \* p.player # nil
    otoReady,     \* p.otoContext # nil
    audioLen,     \* len(p.audioData)
    sampleRate, channels,
    duration, position,   \* in ticks
    volume,       \* in percent
    doneCloses,   \* close() calls made on the channel p.playbackDone holds
    trackers,     \* the trackPosition goroutines alive, as a bag
    \* History.  A command here is a call that changed the player's state;
    \* a call that returned an error or found nothing to do is not recorded.
    lastCmd,      \* the last command
    lastArg,      \* argument of the last command, if it was a SeekTo
    base,         \* Position when the last command returned, if it was a
                  \* SeekTo or a Resume
    sinceCmd,     \* ticks elapsed since the last command, up to SinceCap, if
                  \* it was a SeekTo
    lastTick,     \* what the last tick handled since the last command did
    \* The lyric timeline and the lookups made in it.
    lyricLines,   \* a.lyricLines
    currentTime,  \* argument of the last lookup
    activeIndex,  \* what findCurrentLyricIndex returned for it
    lyricAtTime,  \* what FindLyricAtTime returned for it
    prevTime, prevIndex,  \* argument and index of the lookup before it
    hitChance,    \* what calculateHitChance last returned, 0 if nothing:
                  \* in thousandths, times len(a.lyricLines)
    \* The App: the fields of its playback and of its karaoke session.
    songs,        \* a.songs, the library loadSongs found
    currentSong,
    appIsPlaying, appIsPaused,   \* a.isPlaying, a.isPaused
    appPosition, appDuration,    \* a.position, a.duration
    karaokeScore, streak, accuracy, totalLyrics, hitLyrics,
    beatPhase,
    \* History of the App.
    playingSong,  \* the song of the last playback started, -1 if none
    milestone5,   \* streak-5 bonuses awarded since the streak was last
                  \* reset, up to 2
    \* The statements of Play(), trackPosition() and WaitForCompletion()
    \* taken one by one.
    mutex,        \* the goroutine holding p.mutex, "free" if none
    callerPc,     \* where the goroutine calling Play() is
    trackerPc,    \* where the trackPosition goroutine followed is
    waiterPc,     \* where the goroutine calling WaitForCompletion() is
    appTasks,     \* trackRealPlayback goroutines alive
    tickPc,       \* where the trackRealPlayback tick followed is
    playerStopped, \* a.player has not started playing since it was last stopped
    sinceStop,    \* stop() has returned and play() has not been called since
    decoded,      \* the decoded stream: format and sample frames
    pcmData,      \* the buffer convertToRawPCM has built, as bytes
    loadResult,   \* how the load of the decoded stream ended
    readerOffset, \* byte offset in pcmData the reader of p.player was
                  \* positioned at
    helpPage      \* the help overlay: "closed", or open with the wasPlaying
                  \* its close handler has captured

playerVars == <<variant, isLoaded, isPlaying, isPaused, hasPlayer, otoReady,
                audioLen, sampleRate, channels, duration, position, volume,
                doneCloses>>
histVars == <<lastCmd, lastArg, base, sinceCmd, lastTick>>
lookupVars == <<currentTime, activeIndex, lyricAtTime, prevTime, prevIndex,
                hitChance>>
NumSongs == Len(songs)
playbackVars == <<songs, currentSong, appIsPlaying, appIsPaused, appPosition,
                  appDuration, playingSong>>
sessionVars == <<karaokeScore, streak, accuracy, totalLyrics, hitLyrics,
                 beatPhase, milestone5>>
appVars == <<lyricLines, lookupVars, playbackVars, sessionVars>>
lockVars == <<mutex, callerPc, trackerPc, waiterPc>>
taskVars == <<appTasks, tickPc, playerStopped, sinceStop>>
bufferVars == <<decoded, pcmData, loadResult>>
vars == <<playerVars, trackers, histVars, appVars, lockVars, taskVars,
          bufferVars, helpPage, readerOffset>>

\* A tracker goroutine in its select loop.  elapsed: time.Since(startTime).
\* due: a tick is waiting in ticker.C.  stale: a Stop, LoadFile or Play has
\* run since the goroutine was spawned.
TrackerStates == [elapsed : 0..MaxElapsed, due : BOOLEAN, stale : BOOLEAN]
\* ticker := time.NewTicker(100ms); startTime := time.Now()
SpawnedTracker == [elapsed |-> 0, due |-> FALSE, stale |-> FALSE]

\* The model holds at most MaxTrackers goroutines.
HasFree(ts) == BagCardinality(ts) < MaxTrackers

SpawnNone(ts) == ts
\* go p.trackPosition()
Spawn(ts) == ts (+) SetToBag({SpawnedTracker})

\* return, in trackPosition
Leave(ts, t) == ts (-) SetToBag({t})

Staled(t) == [t EXCEPT !.stale = TRUE]
\* The trackers as a Stop, LoadFile or Play leaves them: none is stopped.
MarkStale(ts) == BagOfAll(Staled, ts)

\* A tracker one ticker period later.
Aged(t) == [t EXCEPT !.elapsed = Min(@ + 1, MaxElapsed), !.due = TRUE]

TickExitsPausedOnly(playing, paused) == paused
TickExitsNever(playing, paused) == FALSE
\* if !p.isPlaying || p.isPaused { return }
TickExits(playing, paused) == (~playing) \/ paused

TickResultKeepsPlaying(elapsed, dur) ==
    IF elapsed >= dur
    THEN [position |-> dur, isPlaying |-> TRUE, finished |-> TRUE]
    ELSE [position |-> elapsed, isPlaying |-> TRUE, finished |-> FALSE]
\* p.position = elapsed; if p.position >= p.duration { ... }
TickResult(elapsed, dur) ==
    IF elapsed >= dur
    THEN [position |-> dur, isPlaying |-> FALSE, finished |-> TRUE]
    ELSE [position |-> elapsed, isPlaying |-> TRUE, finished |-> FALSE]

ClampSeekNoUpper(t, dur) == IF t < 0 THEN 0 ELSE t
\* if position < 0 { position = 0 } else if position > p.duration { ... }
ClampSeek(t, dur) == IF t < 0 THEN 0 ELSE IF t > dur THEN dur ELSE t

\* The goroutine in WaitForCompletion after p.playbackDone = make(...): one
\* blocked in the receive holds the channel it read, which no variable of
\* the player refers to any more.  That channel stays closed if it was
\* closed (closes > 0) and is otherwise never closed.
Replaced(pc, closes) ==
    IF pc = "blocked"
    THEN IF closes > 0 THEN "released" ELSE "orphaned"
    ELSE pc

\* No reader: p.player is nil.
NoReader == 0 - 1
\* The reader of p.player is followed on the buffers whose bytes pcmData
\* holds: off on such a buffer, NoReader on one known by its length only.
ReaderAt(off) == IF loadResult = "ok" THEN off ELSE NoReader
\* int(position.Seconds()), for a position in ticks.
WholeSeconds(pos) == pos \div TicksPerSecond
\* sampleSize := 2 * p.channels
SampleSize(ch) == 2 * ch
\* bytesToSkip of SeekTo: targetSamples * sampleSize, with targetSamples
\* counting the samples of every channel.
SeekOffset(pos, rate, ch) == (WholeSeconds(pos) * (rate * ch)) * SampleSize(ch)

\* Longest duration a decoded stream can have: MaxFrames frames at one
\* frame per second.
MaxStreamDuration == MaxFrames * TicksPerSecond

\* ------------------------------------------------------- convertToRawPCM
\* A float64 product sample * p.volume is kept exactly, in units of 1/10000
\* (percent times percent).
UnitScale == 10000
\* if x > 1.0 { x = 1.0 } else if x < -1.0 { x = -1.0 }
ClampUnit(x) ==
    IF x > UnitScale THEN UnitScale
    ELSE IF x < 0 - UnitScale THEN 0 - UnitScale ELSE x
\* Conversion of a float to an integer type: truncation towards zero.
Truncate(a, b) == IF a >= 0 THEN a \div b ELSE 0 - ((0 - a) \div b)
\* int16(x * 32767) for x in [-1, 1]
ToInt16(x) == Truncate(x * 32767, UnitScale)
\* byte(v) and byte(v >> 8) of an int16 v
LowByte(v) == v % 256
HighByte(v) == (v \div 256) % 256
\* The int16 stored little-endian in the bytes lo, hi.
Int16LE(lo, hi) ==
    LET u == lo + 256 * hi IN IF u >= 32768 THEN u - 65536 ELSE u

\* make([]byte, n)
MakeBytes(n) == [data |-> [i \in 1..n |-> 0], panic |-> FALSE]
\* buf[idx] = b, a run-time panic when idx is out of range
Store(buf, idx, b) ==
    IF buf.panic \/ idx >= Len(buf.data)
    THEN [buf EXCEPT !.panic = TRUE]
    ELSE [buf EXCEPT !.data[idx + 1] = b]

\* The body of the conversion loop for frame i (counted from 0).
ConvertFrame(buf, i, sample, ch, vol) ==
    LET leftInt == ToInt16(ClampUnit(sample[1] * vol))
        rightInt == ToInt16(ClampUnit(sample[2] * vol))
        withLeft == Store(Store(buf, i * 4, LowByte(leftInt)),
                          i * 4 + 1, HighByte(leftInt))
    IN  IF ch > 1
        THEN Store(Store(withLeft, i * 4 + 2, LowByte(rightInt)),
                   i * 4 + 3, HighByte(rightInt))
        ELSE withLeft

RECURSIVE ConvertFrom(_, _, _, _, _)
ConvertFrom(buf, i, samples, ch, vol) ==
    IF i >= Len(samples) \/ buf.panic
    THEN buf
    ELSE ConvertFrom(ConvertFrame(buf, i, samples[i + 1], ch, vol), i + 1,
                     samples, ch, vol)

\* convertToRawPCM with p.channels = ch and p.volume = vol (in percent)
convertToRawPCM(samples, ch, vol) ==
    ConvertFrom(MakeBytes(Len(samples) * 2 * ch), 0, samples, ch, vol)

ClampVolumeNoLower(v) == IF v > 100 THEN 100 ELSE v
\* if volume < 0.0 { volume = 0.0 } else if volume > 1.0 { volume = 1.0 }
ClampVolume(v) == IF v < 0 THEN 0 ELSE IF v > 100 THEN 100 ELSE v

PlayFailsNever(loaded, len, oto) == FALSE
\* if !p.isLoaded || len(p.audioData) == 0 { return err }
\* if p.otoContext == nil { return err }
PlayFails(loaded, len, oto) == (~loaded) \/ len = 0 \/ ~oto

\* if !p.isLoaded || p.player == nil { return err }, in SeekTo
SeekFails(loaded, has) == (~loaded) \/ ~has

ReachedExactly(time, lineTime) == time = lineTime
ReachedStrictly(time, lineTime) == time > lineTime
\* if currentTime >= lyric.Time, and if lyrics[i].Time <= targetTime
Reached(time, lineTime) == time >= lineTime

\* The loop of findCurrentLyricIndex from the i-th line on, activeIndex
\* being the Go index chosen so far.
RECURSIVE ScanLines(_, _, _, _)
ScanLines(lines, time, i, active) ==
    IF i > Len(lines) THEN active
    ELSE IF Reached(time, lines[i].Time) THEN ScanLines(lines, time, i + 1, i - 1)
    ELSE active
findCurrentLyricIndex(lines, time) == ScanLines(lines, time, 1, 0 - 1)

\* The loop of FindLyricAtTime from the i-th entry on, current being the
\* entry pointed to so far.
RECURSIVE ScanEntries(_, _, _, _)
ScanEntries(lyrics, targetTime, i, current) ==
    IF i > Len(lyrics) THEN current
    ELSE IF Reached(targetTime, lyrics[i].Time)
         THEN ScanEntries(lyrics, targetTime, i + 1, lyrics[i])
    ELSE current
FindLyricAtTime(lyrics, targetTime) == ScanEntries(lyrics, targetTime, 1, Nil)

\* The number of close() calls a closed channel has seen.
ClosedOnce == 1
ClosedChannel == ClosedOnce
\* make(chan struct{}): a channel on which close() has not been called.
NewChannel == 0

\* A double close of a channel panics and ends the process.
Panicked == doneCloses >= 2 \/ loadResult \in {"index", "divide"}

\* ------------------------------------------------------------------- Init
InitFor(v) ==
    /\ variant = v
    /\ isLoaded = FALSE /\ isPlaying = FALSE /\ isPaused = FALSE
    /\ hasPlayer = FALSE /\ otoReady = FALSE
    /\ audioLen = 0
    /\ sampleRate = DefaultSampleRate /\ channels = DefaultChannels
    /\ duration = 0 /\ position = 0
    /\ volume = DefaultVolume
    /\ doneCloses = NewChannel
    /\ readerOffset = NoReader
    /\ trackers = EmptyBag
    /\ lastCmd = "New" /\ lastArg = 0 /\ base = 0 /\ sinceCmd = 0
    /\ lastTick = "none"
    /\ mutex = "free" /\ callerPc = "idle" /\ trackerPc = "none"
    /\ waiterPc = "none" /\ helpPage = "closed"

\* No lookup made yet in the timeline with the timestamps ts.
NoLookup(ts) ==
    /\ lyricLines = LoadedLines(ts)
    /\ currentTime = 0 - 1 /\ activeIndex = 0 - 1 /\ lyricAtTime = Nil
    /\ prevTime = 0 - 1 /\ prevIndex = 0 - 1
    /\ hitChance = 0

\* NewApp, and loadSongs finding the library lib.
AppStart(lib) ==
    /\ songs = lib
    /\ currentSong = 0
    /\ appIsPlaying = FALSE /\ appIsPaused = FALSE
    /\ appPosition = 0 /\ appDuration = 0
    /\ karaokeScore = 0 /\ streak = 0 /\ accuracy = 0
    /\ totalLyrics = 0 /\ hitLyrics = 0
    /\ beatPhase = 0
    /\ playingSong = 0 - 1 /\ milestone5 = 0
    /\ appTasks = 0 /\ tickPc = "sleep" /\ playerStopped = TRUE
    /\ sinceStop = FALSE
AppNew == AppStart(Songs)

\* No stream has been decoded.
NoStream ==
    /\ decoded = [rate |-> DefaultSampleRate, channels |-> DefaultChannels,
                  samples |-> <<>>]
    /\ pcmData = <<>>
    /\ loadResult = "none"

Init == InitFor("part_007") /\ NoLookup(<<>>) /\ AppNew /\ NoStream
InitPkg == InitFor("pkg_player") /\ NoLookup(<<>>) /\ AppNew /\ NoStream
\* Any validly ordered timeline, on a new player.
InitLyrics ==
    /\ InitFor("part_007") /\ AppNew /\ NoStream
    /\ \E ts \in ValidTimestamps : NoLookup(ts)
\* An App playing a song whose lyric file has the timestamps ts, the streak
\* at n.
InitChance ==
    /\ InitFor("part_007") /\ NoStream
    /\ \E ts \in ValidTimestamps \ {<<>>}, n \in 0..MaxStreak :
          /\ NoLookup(ts)
          /\ songs = <<[LyricsPath |-> "lrc", timestamps |-> ts,
                        Duration |-> MaxOf(BeatPositions)]>>
          /\ streak = n /\ hitLyrics = n
          /\ totalLyrics = Len(ts)
    /\ currentSong = 0 /\ playingSong = 0
    /\ appIsPlaying = TRUE /\ appIsPaused = FALSE
    /\ appPosition = 0 /\ appDuration = MaxOf(BeatPositions)
    /\ karaokeScore = 0 /\ accuracy = 0
    /\ beatPhase = 0 /\ milestone5 = 0
    /\ appTasks = 1 /\ tickPc = "sleep" /\ playerStopped = FALSE
    /\ sinceStop = FALSE
\* The longest file of Files.
LongestFile == CHOOSE f \in Files : f.frames = MaxFrames
\* A player on which LoadFile(LongestFile) has returned nil, no goroutine
\* running yet.
InitLoaded ==
    /\ variant = "part_007"
    /\ isLoaded = TRUE /\ isPlaying = FALSE /\ isPaused = FALSE
    /\ hasPlayer = FALSE /\ otoReady = TRUE
    /\ audioLen = PCMLen(LongestFile)
    /\ sampleRate = LongestFile.sampleRate /\ channels = LongestFile.channels
    /\ duration = DurationOf(PCMLen(LongestFile), LongestFile.sampleRate,
                             LongestFile.channels)
    /\ position = 0
    /\ volume = DefaultVolume
    /\ doneCloses = NewChannel
    /\ readerOffset = NoReader
    /\ trackers = EmptyBag
    /\ lastCmd = "LoadFile" /\ lastArg = 0 /\ base = 0 /\ sinceCmd = 0
    /\ lastTick = "none"
    /\ mutex = "free" /\ callerPc = "idle" /\ trackerPc = "none"
    /\ waiterPc = "none" /\ helpPage = "closed"
    /\ NoLookup(<<>>) /\ AppNew /\ NoStream
\* A player on which LoadFile(LongestFile) and then Play() have returned
\* nil: the track plays from 0 and the tracker of that Play is running.
StartedPlayer ==
    /\ variant = "part_007"
    /\ isLoaded = TRUE /\ isPlaying = TRUE /\ isPaused = FALSE
    /\ hasPlayer = TRUE /\ otoReady = TRUE
    /\ audioLen = PCMLen(LongestFile)
    /\ sampleRate = LongestFile.sampleRate /\ channels = LongestFile.channels
    /\ duration = DurationOf(PCMLen(LongestFile), LongestFile.sampleRate,
                             LongestFile.channels)
    /\ position = 0
    /\ volume = DefaultVolume
    /\ doneCloses = NewChannel
    /\ readerOffset = NoReader
    /\ trackers = Spawn(EmptyBag)
    /\ lastCmd = "Play" /\ lastArg = 0 /\ base = 0 /\ sinceCmd = 0
    /\ lastTick = "none"
    /\ mutex = "free" /\ callerPc = "idle" /\ trackerPc = "none"
    /\ waiterPc = "none" /\ helpPage = "closed"
InitStarted == StartedPlayer /\ NoLookup(<<>>) /\ AppNew /\ NoStream
\* An App whose play() has started the one song of its library, a song as
\* long as the track the player holds: the player plays it and
\* trackRealPlayback runs.
InitHelp ==
    /\ StartedPlayer /\ NoLookup(<<>>) /\ NoStream
    /\ songs = <<[LyricsPath |-> "", timestamps |-> <<>>, Duration |-> duration]>>
    /\ currentSong = 0 /\ playingSong = 0
    /\ appIsPlaying = TRUE /\ appIsPaused = FALSE
    /\ appPosition = 0 /\ appDuration = duration
    /\ karaokeScore = 0 /\ streak = 0 /\ accuracy = 0
    /\ totalLyrics = 0 /\ hitLyrics = 0
    /\ beatPhase = 0 /\ milestone5 = 0
    /\ appTasks = 1 /\ tickPc = "sleep" /\ playerStopped = FALSE
    /\ sinceStop = FALSE
\* A new player, or one on which SetVolume has been called, and a stream
\* that a file decodes to.
InitDecoded ==
    /\ variant = "part_007"
    /\ isLoaded = FALSE /\ isPlaying = FALSE /\ isPaused = FALSE
    /\ hasPlayer = FALSE /\ otoReady = FALSE
    /\ audioLen = 0
    /\ sampleRate = DefaultSampleRate /\ channels = DefaultChannels
    /\ duration = 0 /\ position = 0
    /\ volume \in {ClampVolume(v) : v \in VolumeInputs} \cup {DefaultVolume}
    /\ doneCloses = NewChannel
    /\ readerOffset = NoReader
    /\ trackers = EmptyBag
    /\ lastCmd = "New" /\ lastArg = 0 /\ base = 0 /\ sinceCmd = 0
    /\ lastTick = "none"
    /\ mutex = "free" /\ callerPc = "idle" /\ trackerPc = "none"
    /\ waiterPc = "none" /\ helpPage = "closed"
    /\ NoLookup(<<>>) /\ AppNew
    /\ decoded \in DecodedStreams
    /\ pcmData = <<>>
    /\ loadResult = "none"
\* A new App whose library is UnorderedSongs.
InitUnordered ==
    /\ InitFor("part_007") /\ NoLookup(<<>>) /\ AppStart(UnorderedSongs)
    /\ NoStream

\* History kept by a command: cmd has just returned with Position pos.
Issued(cmd, arg, pos) ==
    /\ lastCmd' = cmd /\ lastArg' = arg
    /\ base' = IF cmd \in {"SeekTo", "Resume"} THEN pos ELSE 0
    /\ sinceCmd' = 0 /\ lastTick' = "none"

\* --------------------------------------------------------------- commands
LoadFile(f, outcome) ==
    /\ ~Panicked
    /\ outcome = "initerr" => ~otoReady
    \* p.stopInternal() runs before anything can fail
    /\ isPlaying' = FALSE /\ isPaused' = FALSE /\ position' = 0
    /\ hasPlayer' = FALSE /\ readerOffset' = NoReader
    /\ trackers' = MarkStale(trackers)
    /\ IF outcome = "ok"
       THEN /\ sampleRate' = f.sampleRate /\ channels' = f.channels
            /\ otoReady' = TRUE
            /\ audioLen' = PCMLen(f)
            /\ duration' = DurationOf(PCMLen(f), f.sampleRate, f.channels)
            /\ isLoaded' = TRUE
            /\ Issued("LoadFile", 0, 0)
       ELSE /\ IF outcome = "initerr"
               THEN sampleRate' = f.sampleRate /\ channels' = f.channels
               ELSE UNCHANGED <<sampleRate, channels>>
            /\ UNCHANGED <<otoReady, audioLen, duration, isLoaded>>
            /\ Issued("LoadFileErr", 0, 0)
    /\ UNCHANGED <<variant, volume, doneCloses, appVars, lockVars,
                   taskVars, bufferVars, helpPage>>

Play ==
    /\ ~Panicked
    /\ IF PlayFails(isLoaded, audioLen, otoReady)
       THEN UNCHANGED vars
       ELSE /\ HasFree(trackers)
            \* NewPlayer(bytes.NewReader(p.audioData))
            /\ hasPlayer' = TRUE /\ readerOffset' = ReaderAt(0)
            /\ isPlaying' = TRUE /\ isPaused' = FALSE
            /\ position' = 0
            /\ doneCloses' = NewChannel
            /\ waiterPc' = Replaced(waiterPc, doneCloses)
            /\ trackers' = Spawn(MarkStale(trackers))
            /\ Issued("Play", 0, 0)
            /\ UNCHANGED <<variant, isLoaded, otoReady, audioLen, sampleRate,
                           channels, duration, volume, appVars, mutex,
                           callerPc, trackerPc, taskVars, bufferVars, helpPage>>

\* LoadFile of a file that exists and decodes to the stream decoded; init:
\* what oto.NewContext answers when initializeOto has to call it.
LoadDecoded(init) ==
    /\ ~Panicked
    /\ init = "err" => ~otoReady
    /\ isPlaying' = FALSE /\ isPaused' = FALSE /\ position' = 0
    /\ hasPlayer' = FALSE /\ readerOffset' = NoReader
    /\ trackers' = MarkStale(trackers)
    /\ sampleRate' = decoded.rate /\ channels' = decoded.channels
    /\ IF init = "err"
       THEN /\ loadResult' = "initerr"
            /\ UNCHANGED <<otoReady, pcmData, audioLen, duration, isLoaded>>
            /\ Issued("LoadFileErr", 0, 0)
       ELSE LET audioData == convertToRawPCM(decoded.samples, channels', volume)
                samplesPerSecond == sampleRate' * channels'
            IN  /\ otoReady' = TRUE
                /\ IF audioData.panic
                   THEN /\ loadResult' = "index"
                        /\ UNCHANGED <<pcmData, audioLen, duration, isLoaded>>
                        /\ Issued("LoadFilePanic", 0, 0)
                   ELSE /\ pcmData' = audioData.data
                        /\ IF samplesPerSecond = 0
                           THEN /\ loadResult' = "divide"
                                /\ UNCHANGED <<audioLen, duration, isLoaded>>
                                /\ Issued("LoadFilePanic", 0, 0)
                           ELSE /\ loadResult' = "ok"
                                /\ audioLen' = Len(audioData.data)
                                /\ duration' = DurationOf(Len(audioData.data),
                                                          sampleRate', channels')
                                /\ isLoaded' = TRUE
                                /\ Issued("LoadFile", 0, 0)
    /\ UNCHANGED <<variant, volume, doneCloses, decoded, helpPage, appVars, lockVars,
                   taskVars>>

PauseKeepsPlaying ==
    /\ ~Panicked
    /\ IF isPlaying /\ hasPlayer
       THEN /\ isPaused' = TRUE /\ isPlaying' = isPlaying
            /\ Issued("Pause", 0, position)
       ELSE UNCHANGED <<isPaused, isPlaying, histVars>>
    /\ UNCHANGED <<variant, isLoaded, hasPlayer, otoReady, audioLen, sampleRate,
                   channels, duration, position, volume, doneCloses, trackers,
                   appVars, lockVars,
                   taskVars, bufferVars, helpPage, readerOffset>>
\* Pause() as a handler of the App calls it: what it does to the player.
PauseCall ==
    /\ ~Panicked
    /\ IF isPlaying /\ hasPlayer
       THEN /\ isPaused' = TRUE /\ isPlaying' = FALSE
            /\ Issued("Pause", 0, position)
       ELSE UNCHANGED <<isPaused, isPlaying, histVars>>
    /\ UNCHANGED <<variant, isLoaded, hasPlayer, otoReady, audioLen, sampleRate,
                   channels, duration, position, volume, doneCloses, trackers,
                   appVars, lockVars,
                   taskVars, bufferVars, readerOffset>>

Pause == PauseCall /\ UNCHANGED helpPage

\* Resume() as a handler of the App calls it: what it does to the player.
ResumeCall ==
    /\ ~Panicked
    /\ IF isPaused /\ hasPlayer
       THEN /\ isPaused' = FALSE /\ isPlaying' = TRUE
            /\ IF variant = "pkg_player"
               THEN HasFree(trackers) /\ trackers' = Spawn(trackers)
               ELSE UNCHANGED trackers
            /\ Issued("Resume", 0, position)
       ELSE UNCHANGED <<isPaused, isPlaying, trackers, histVars>>
    /\ UNCHANGED <<variant, isLoaded, hasPlayer, otoReady, audioLen, sampleRate,
                   channels, duration, position, volume, doneCloses, appVars, lockVars,
                   taskVars, bufferVars, readerOffset>>

Resume == ResumeCall /\ UNCHANGED helpPage

\* stopInternal under the mutex
StopAs(cmd) ==
    /\ ~Panicked
    /\ hasPlayer' = FALSE /\ readerOffset' = NoReader
    /\ isPlaying' = FALSE /\ isPaused' = FALSE /\ position' = 0
    /\ trackers' = MarkStale(trackers)
    /\ Issued(cmd, 0, 0)
    /\ UNCHANGED <<variant, isLoaded, otoReady, audioLen, sampleRate, channels,
                   duration, volume, doneCloses, appVars, lockVars,
                   taskVars, bufferVars, helpPage>>

StopLeavesPosition ==
    /\ ~Panicked
    /\ hasPlayer' = FALSE /\ readerOffset' = NoReader
    /\ isPlaying' = FALSE /\ isPaused' = FALSE
    /\ trackers' = MarkStale(trackers)
    /\ Issued("Stop", 0, 0)
    /\ UNCHANGED <<variant, isLoaded, otoReady, audioLen, sampleRate, channels,
                   duration, position, volume, doneCloses, appVars, lockVars,
                   taskVars, bufferVars, helpPage>>
Stop == StopAs("Stop")
Close == StopAs("Close")

SeekTo(t) ==
    /\ ~Panicked
    /\ variant = "part_007"
    /\ IF SeekFails(isLoaded, hasPlayer)
       THEN UNCHANGED vars
       ELSE /\ position' = ClampSeek(t, duration)
            \* stopInternal clears both flags; only isPlaying is restored
            /\ isPlaying' = isPlaying /\ isPaused' = FALSE
            /\ hasPlayer' = TRUE
            /\ readerOffset' = ReaderAt(SeekOffset(position', sampleRate, channels))
            /\ Issued("SeekTo", t, position')
            /\ UNCHANGED <<variant, isLoaded, otoReady, audioLen, sampleRate,
                           channels, duration, volume, doneCloses, trackers,
                           appVars, lockVars,
                   taskVars, bufferVars, helpPage>>

SetVolumeRebuilds(v) ==
    /\ ~Panicked
    /\ variant = "part_007"
    /\ volume' = ClampVolume(v)
    /\ pcmData' = IF loadResult = "ok"
                  THEN convertToRawPCM(decoded.samples, channels, volume').data
                  ELSE pcmData
    /\ UNCHANGED <<variant, isLoaded, isPlaying, isPaused, hasPlayer, otoReady,
                   audioLen, sampleRate, channels, duration, position,
                   doneCloses, trackers, histVars, appVars, lockVars,
                   taskVars, decoded, loadResult, readerOffset, helpPage>>
SetVolume(v) ==
    /\ ~Panicked
    /\ variant = "part_007"
    /\ volume' = ClampVolume(v)
    /\ UNCHANGED <<variant, isLoaded, isPlaying, isPaused, hasPlayer, otoReady,
                   audioLen, sampleRate, channels, duration, position,
                   doneCloses, trackers, histVars, appVars, lockVars,
                   taskVars, bufferVars, helpPage, readerOffset>>

\* ---------------------------------------------------------- trackPosition
\* case <-ticker.C: the body under the mutex, run by a tracker in state t.
TrackerTick(t) ==
    /\ ~Panicked
    /\ BagIn(t, trackers) /\ t.due
    /\ IF TickExits(isPlaying, isPaused)
       THEN /\ trackers' = Leave(trackers, t)
            /\ lastTick' = "exit"
            /\ UNCHANGED <<playerVars>>
       ELSE LET r == TickResult(t.elapsed, duration) IN
            /\ position' = r.position
            /\ isPlaying' = r.isPlaying
            /\ isPaused' = IF r.finished THEN FALSE ELSE isPaused
            /\ doneCloses' = IF r.finished THEN Min(doneCloses + 1, 2) ELSE doneCloses
            /\ trackers' = IF r.finished
                           THEN Leave(trackers, t)
                           ELSE Leave(trackers, t) (+) SetToBag({[t EXCEPT !.due = FALSE]})
            /\ lastTick' = IF t.stale THEN "stale" ELSE "fresh"
            /\ UNCHANGED <<variant, isLoaded, hasPlayer, otoReady, audioLen,
                           sampleRate, channels, duration, volume>>
    /\ UNCHANGED <<lastCmd, lastArg, base, sinceCmd, appVars, lockVars,
                   taskVars, bufferVars, helpPage, readerOffset>>

\* case <-p.playbackDone: return.  The select waits on the channel that
\* p.playbackDone held when the goroutine entered it (a read outside the
\* mutex), which is closed only if a tick has finished a playback.  A tracker
\* may take this case whenever the channel p.playbackDone holds is closed: a
\* tracker still waiting on an earlier channel is then allowed to leave too,
\* which writes nothing and is the same as its tick never being handled.
TrackerDone(t) ==
    /\ ~Panicked
    /\ BagIn(t, trackers)
    /\ doneCloses > 0
    /\ trackers' = Leave(trackers, t)
    /\ UNCHANGED <<playerVars, histVars, appVars, lockVars,
                   taskVars, bufferVars, helpPage, readerOffset>>

\* One ticker period of wall-clock time passes.
AdvanceTime ==
    /\ ~Panicked
    /\ trackers' = BagOfAll(Aged, trackers)
    /\ sinceCmd' = IF lastCmd = "SeekTo" THEN Min(sinceCmd + 1, SinceCap) ELSE 0
    /\ UNCHANGED <<playerVars, lastCmd, lastArg, base, lastTick, appVars, lockVars,
                   taskVars, bufferVars, helpPage, readerOffset>>

\* ------------------------------------------------------------ lyric lookup
\* findCurrentLyricIndex(t) on a.lyricLines and FindLyricAtTime on the same
\* times and texts.
FindLyric(t) ==
    /\ currentTime' = t
    /\ activeIndex' = findCurrentLyricIndex(lyricLines, t)
    /\ lyricAtTime' = FindLyricAtTime(Entries(lyricLines), t)
    /\ prevTime' = currentTime /\ prevIndex' = activeIndex
    /\ UNCHANGED <<playerVars, trackers, histVars, lockVars, taskVars, bufferVars, helpPage,
                   readerOffset, lyricLines, hitChance, playbackVars,
                   sessionVars>>

\* -------------------------------------------------------------- the App
\* The App's handlers run one at a time on the UI goroutine.  The App's
\* AudioPlayer is its environment here: what LoadFile, Play, GetPosition and
\* IsPlaying return to it are inputs of the actions.  The lyric file of a
\* song with a LyricsPath exists and holds the song's timed lines.

Song(cs) == songs[cs + 1]

\* a.lyricLines as play() loads it for a song.
LyricsOf(song) ==
    IF song.LyricsPath # ""
    THEN LoadedLines(song.timestamps)
    ELSE <<LoadedLine(0, 0)>>

\* a.lyricLines[i].IsHit = false; a.lyricLines[i].IsActive = false
ClearedLine(l) == [l EXCEPT !.IsHit = FALSE, !.IsActive = FALSE]
ClearedLines(lines) == [i \in DOMAIN lines |-> ClearedLine(lines[i])]

\* a.beatPhase = int(timeMs/250) % 4, with the position in ticker periods
BeatPhaseAt(pos) == ((pos * 100) \div 250) % 4

\* int(float64(basePoints) * streakMultiplier) + beatBonus, for the streaks
\* up to 12, where the product is the exact integer.
HitPoints(n, phase) == (100 + 10 * n) + (IF phase = 0 THEN 50 ELSE 0)

MilestoneBonusFromFive(n) ==
    IF n >= 5 THEN 500 ELSE 0
\* The achievement bonus of a hit that has raised the streak to n.
MilestoneBonus(n) ==
    IF n = 5 THEN 500
    ELSE IF n = 10 THEN 1000
    ELSE IF n % 15 = 0 THEN 2000
    ELSE 0

\* The karaoke session as a record, for the scoring functions.
Session ==
    [lines |-> lyricLines, score |-> karaokeScore, streak |-> streak,
     accuracy |-> accuracy, total |-> totalLyrics, hits |-> hitLyrics,
     bonus5 |-> milestone5]

\* hitLyric(lyricIndex) with a.beatPhase = phase
hitLyric(k, lyricIndex, phase) ==
    IF lyricIndex < 0 \/ lyricIndex >= Len(k.lines) THEN k
    ELSE IF k.lines[lyricIndex + 1].IsHit THEN k
    ELSE LET n == k.streak + 1
             bonus == MilestoneBonus(n)
         IN [k EXCEPT !.lines[lyricIndex + 1].IsHit = TRUE,
                      !.hits = @ + 1,
                      !.score = @ + HitPoints(k.streak, phase) + bonus,
                      !.streak = n,
                      !.bonus5 = IF bonus = 500 THEN Min(@ + 1, 2) ELSE @]

\* a.accuracy = a.calculateAccuracy(), in whole percent
WithAccuracy(k) ==
    LET total == IF k.total = 0 THEN Len(k.lines) ELSE k.total
    IN [k EXCEPT !.total = total,
                 !.accuracy = IF total = 0 THEN 0 ELSE (k.hits * 100) \div total]

\* baseChance, streakBonus and its cap, the factor of progressBonus, the
\* cap of totalChance: in thousandths.
BaseChance == 700
StreakBonusStep == 50
StreakBonusCap == 200
ProgressFactor == 100
ChanceCap == 950
\* beatBonus of calculateHitChance, in thousandths
OnBeatBonus == 100
BeatBonus(phase) == IF phase = 0 THEN OnBeatBonus ELSE 0
\* calculateHitChance(lyricIndex) with a.streak = n, len(a.lyricLines) = len
\* and a.beatPhase = phase; in thousandths, times len.
calculateHitChance(n, lyricIndex, len, phase) ==
    LET streakBonus == Min(n * StreakBonusStep, StreakBonusCap)
        totalChance == (BaseChance + streakBonus + BeatBonus(phase)) * len
                         + lyricIndex * ProgressFactor
    IN  Min(totalChance, ChanceCap * len)

\* A tick has read the position pos and its draw runs: updateVisualizer()
\* sets the beat phase, updateScore() reaches calculateHitChance for the
\* line at pos.
EvaluateChance(pos) ==
    /\ appIsPlaying
    /\ appPosition' = pos
    /\ beatPhase' = BeatPhaseAt(pos)
    /\ LET idx == findCurrentLyricIndex(lyricLines, pos) IN
       hitChance' = IF idx >= 0
                    THEN calculateHitChance(streak, idx, Len(lyricLines), beatPhase')
                    ELSE hitChance
    /\ UNCHANGED <<playerVars, trackers, histVars, lockVars, taskVars, bufferVars, helpPage,
                   readerOffset, lyricLines, currentTime, activeIndex,
                   lyricAtTime, prevTime, prevIndex, songs, currentSong,
                   appIsPlaying, appIsPaused, appDuration, playingSong,
                   karaokeScore, streak, accuracy, totalLyrics, hitLyrics,
                   milestone5>>

NotYetHit(lyric) == ~lyric.IsHit
\* if !lyric.IsHit && !lyric.IsActive
NotYetReached(lyric) == (~lyric.IsHit) /\ (~lyric.IsActive)

MarkActiveBreaksStreak(k, idx) ==
    [k EXCEPT !.lines[idx + 1].IsActive = TRUE, !.streak = 0]
\* lyric.IsActive = true
MarkActive(k, idx) == [k EXCEPT !.lines[idx + 1].IsActive = TRUE]

\* updateKaraokeScoring() at position pos; roll: rand.Float64() < hitChance
updateKaraokeScoring(k, pos, phase, roll) ==
    IF Len(k.lines) = 0 THEN k
    ELSE LET idx == findCurrentLyricIndex(k.lines, pos)
             fresh == /\ idx >= 0 /\ idx < Len(k.lines)
                      /\ NotYetReached(k.lines[idx + 1])
             active == MarkActive(k, idx)
         IN WithAccuracy(IF ~fresh THEN k
                         ELSE IF roll THEN hitLyric(active, idx, phase)
                         ELSE active)

\* The session variables take the values of the record k.
SessionBecomes(k) ==
    /\ lyricLines' = k.lines
    /\ karaokeScore' = k.score /\ streak' = k.streak
    /\ accuracy' = k.accuracy /\ totalLyrics' = k.total /\ hitLyrics' = k.hits
    /\ milestone5' = k.bonus5

ZeroedKeepsHits(k, total) ==
    [k EXCEPT !.score = 0, !.streak = 0, !.accuracy = 0,
              !.total = total, !.bonus5 = 0]
\* The session with score, streak, accuracy and hit count zeroed.
Zeroed(k, total) ==
    [k EXCEPT !.score = 0, !.streak = 0, !.accuracy = 0, !.hits = 0,
              !.total = total, !.bonus5 = 0]

\* play() with a.currentSong = cs, set by the caller.  load, start: what
\* a.player.LoadFile and a.player.Play return.
AppPlay(cs, load, start) ==
    /\ currentSong' = cs
    /\ IF cs < 0 \/ cs >= NumSongs
       THEN UNCHANGED <<lyricLines, appIsPlaying, appIsPaused, appDuration,
                        playingSong, sessionVars, taskVars>>
       ELSE LET loaded == [Session EXCEPT !.lines = LyricsOf(Song(cs))] IN
            \* Reset karaoke state only for NEW playback (not resume)
            /\ IF ~appIsPaused
               THEN SessionBecomes([Zeroed(loaded, Len(loaded.lines))
                                      EXCEPT !.lines = ClearedLines(@)])
               ELSE SessionBecomes(loaded)
            /\ IF load = "ok" /\ start = "ok"
               THEN /\ appIsPlaying' = TRUE /\ appIsPaused' = FALSE
                    /\ appDuration' = Song(cs).Duration
                    /\ playingSong' = cs
                    \* go a.trackRealPlayback()
                    /\ appTasks < MaxTasks
                    /\ appTasks' = appTasks + 1
               ELSE UNCHANGED <<appIsPlaying, appIsPaused, appDuration,
                                playingSong, appTasks>>
            \* a.player.LoadFile stops the player, a.player.Play starts it
            /\ playerStopped' = ~(load = "ok" /\ start = "ok")
            /\ sinceStop' = FALSE
            /\ UNCHANGED <<beatPhase, tickPc>>
    /\ UNCHANGED <<playerVars, trackers, histVars, lockVars, bufferVars, helpPage,
                   readerOffset, lookupVars, songs,
                   appPosition>>

\* pause()
AppPause ==
    /\ appIsPaused' = TRUE /\ appIsPlaying' = FALSE
    /\ UNCHANGED <<playerVars, trackers, histVars, lockVars, taskVars, bufferVars, helpPage,
                   readerOffset, lookupVars,
                   lyricLines,
                   songs, currentSong, appPosition, appDuration, playingSong,
                   sessionVars>>

\* Space
TogglePlayPause(load, start) ==
    IF appIsPlaying /\ ~appIsPaused
    THEN AppPause
    ELSE IF currentSong >= 0
         THEN AppPlay(currentSong, load, start)
         ELSE UNCHANGED vars

\* Enter, with the item selectedIndex of the song list selected
PlaySelectedSong(selectedIndex, load, start) ==
    IF currentSong >= 0 /\ currentSong < NumSongs
    THEN IF selectedIndex = currentSong /\ appIsPlaying
         THEN TogglePlayPause(load, start)
         ELSE AppPlay(selectedIndex, load, start)
    ELSE UNCHANGED vars

\* 'n' and 'p'
AppNext(load, start) == AppPlay((currentSong + 1) % NumSongs, load, start)
AppPrevious(load, start) ==
    AppPlay((currentSong - 1 + NumSongs) % NumSongs, load, start)

\* '1'..'9', '0', Up and Down: the selection moves, nothing is played
SelectSong(songIndex) ==
    /\ currentSong' = songIndex
    /\ UNCHANGED <<playerVars, trackers, histVars, lockVars, taskVars, bufferVars, helpPage,
                   readerOffset, lookupVars,
                   lyricLines,
                   songs, appIsPlaying, appIsPaused, appPosition, appDuration,
                   playingSong, sessionVars>>

\* stop()
AppStop ==
    /\ appIsPlaying' = FALSE /\ appIsPaused' = FALSE
    /\ appPosition' = 0
    /\ SessionBecomes([Zeroed(Session, 0) EXCEPT !.lines = ClearedLines(@)])
    /\ beatPhase' = 0
    /\ playerStopped' = TRUE
    /\ sinceStop' = TRUE
    /\ UNCHANGED <<playerVars, trackers, histVars, lockVars, bufferVars, helpPage,
                   readerOffset, lookupVars, songs,
                   currentSong, appDuration, playingSong, appTasks, tickPc>>

\* updateScore(): scoring only while a.isPlaying.  A hit needs room in the
\* streak counter.
UpdateScoreFrom(k, phase, roll) ==
    /\ roll => k.streak < MaxStreak
    /\ IF appIsPlaying
       THEN SessionBecomes(updateKaraokeScoring(k, appPosition, phase, roll))
       ELSE SessionBecomes(k)

\* 'c': clear all scores, then updateScore()
ClearScores(roll) ==
    /\ UpdateScoreFrom(Zeroed(Session, 0), beatPhase, roll)
    /\ UNCHANGED <<playerVars, trackers, histVars, lockVars, taskVars, bufferVars, helpPage,
                   readerOffset, lookupVars,
                   playbackVars,
                   beatPhase>>

\* What a.player.GetPosition() and a.player.IsPlaying() can return: 0 and
\* false on a stopped player.
PlayerReports(pos, playing) == playerStopped => (pos = 0 /\ ~playing)

\* trackRealPlayback goroutines waiting for their next tick.
SleepingTasks == appTasks - (IF tickPc = "sleep" THEN 0 ELSE 1)

\* One tick of trackRealPlayback while a.isPlaying.  pos, playing: what
\* a.player.GetPosition() and a.player.IsPlaying() return.
AppTick(pos, playing) ==
    /\ SleepingTasks > 0
    /\ appIsPlaying
    /\ PlayerReports(pos, playing)
    /\ IF (~playing) \/ pos >= appDuration
       THEN /\ appPosition' = appDuration
            /\ appIsPlaying' = FALSE /\ appIsPaused' = FALSE
            /\ appTasks' = appTasks - 1
       ELSE /\ appPosition' = pos
            /\ UNCHANGED <<appIsPlaying, appIsPaused, appTasks>>
    /\ UNCHANGED <<playerVars, trackers, histVars, lockVars, bufferVars, helpPage,
                   readerOffset, lookupVars, lyricLines,
                   songs, currentSong, appDuration, playingSong, sessionVars,
                   tickPc, playerStopped, sinceStop>>

\* A tick of trackRealPlayback that finds a.isPlaying false: break.
\* A tick of trackRealPlayback on the player of part_007: a.player.GetPosition()
\* and a.player.IsPlaying() return what the player holds.
TrackRealPlaybackTick == AppTick(position, isPlaying /\ ~isPaused)

\* showHelp(): wasPlaying := a.isPlaying && !a.isPaused, the player is
\* paused if it holds, and the overlay is shown.
ShowHelp ==
    /\ helpPage = "closed"
    /\ LET wasPlaying == appIsPlaying /\ ~appIsPaused IN
       IF wasPlaying
       THEN helpPage' = "openWasPlaying" /\ PauseCall
       ELSE /\ helpPage' = "open"
            /\ UNCHANGED <<playerVars, trackers, histVars, appVars, lockVars,
                           taskVars, bufferVars, readerOffset>>

\* Escape, q or h on the overlay: the page is removed and the player is
\* resumed if wasPlaying held when it was opened.
CloseHelp ==
    /\ helpPage # "closed"
    /\ helpPage' = "closed"
    /\ IF helpPage = "openWasPlaying"
       THEN ResumeCall
       ELSE UNCHANGED <<playerVars, trackers, histVars, appVars, lockVars,
                        taskVars, bufferVars, readerOffset>>

AppTaskExit ==
    /\ SleepingTasks > 0
    /\ ~appIsPlaying
    /\ appTasks' = appTasks - 1
    /\ UNCHANGED <<playerVars, trackers, histVars, lockVars, bufferVars, helpPage,
                   readerOffset, appVars, tickPc,
                   playerStopped, sinceStop>>

\* The tick of AppTick statement by statement.  if !a.isPlaying: passed.
TickBegin ==
    /\ tickPc = "sleep" /\ appTasks > 0
    /\ appIsPlaying
    /\ tickPc' = "read"
    /\ UNCHANGED <<playerVars, trackers, histVars, lockVars, bufferVars, helpPage,
                   readerOffset, appVars, appTasks,
                   playerStopped, sinceStop>>

\* a.position = a.player.GetPosition()
TickRead(pos) ==
    /\ tickPc = "read"
    /\ PlayerReports(pos, FALSE)
    /\ appPosition' = pos
    /\ tickPc' = "test"
    /\ UNCHANGED <<playerVars, trackers, histVars, lockVars, bufferVars, helpPage,
                   readerOffset, lookupVars, lyricLines,
                   songs, currentSong, appIsPlaying, appIsPaused, appDuration,
                   playingSong, sessionVars, appTasks, playerStopped, sinceStop>>

\* if !a.player.IsPlaying() || a.position >= a.duration { ...; break }
TickTest(playing) ==
    /\ tickPc = "test"
    /\ PlayerReports(0, playing)
    /\ IF (~playing) \/ appPosition >= appDuration
       THEN /\ appPosition' = appDuration
            /\ appIsPlaying' = FALSE /\ appIsPaused' = FALSE
            /\ appTasks' = appTasks - 1
       ELSE UNCHANGED <<appPosition, appIsPlaying, appIsPaused, appTasks>>
    /\ tickPc' = "sleep"
    /\ UNCHANGED <<playerVars, trackers, histVars, lockVars, bufferVars, helpPage,
                   readerOffset, lookupVars, lyricLines,
                   songs, currentSong, appDuration, playingSong, sessionVars,
                   playerStopped, sinceStop>>

\* The draw a tick has queued, run while a.isPlaying: updateVisualizer(),
\* then updateScore().
TrackerDraw(roll) ==
    /\ appIsPlaying
    /\ beatPhase' = BeatPhaseAt(appPosition)
    /\ UpdateScoreFrom(Session, beatPhase', roll)
    /\ UNCHANGED <<playerVars, trackers, histVars, lockVars, taskVars, bufferVars, helpPage,
                   readerOffset, lookupVars,
                   playbackVars>>

\* The updateAllDisplays() play() has queued, run while a.isPlaying:
\* updateScore() with a.beatPhase as the last updateVisualizer() left it.
DisplayDraw(roll) ==
    /\ appIsPlaying
    /\ UpdateScoreFrom(Session, beatPhase, roll)
    /\ UNCHANGED <<playerVars, trackers, histVars, lockVars, taskVars, bufferVars, helpPage,
                   readerOffset, lookupVars,
                   playbackVars,
                   beatPhase>>

\* ------------------------------------------------- statement by statement
\* Play(), trackPosition() and WaitForCompletion() with every statement a
\* step of its own, on a player with a track loaded.  One trackPosition
\* goroutine is followed: a goroutine spawned while it is alive is not.
LockFrame == UNCHANGED <<variant, isLoaded, otoReady, audioLen, sampleRate,
                         channels, duration, volume, trackers, histVars, appVars,
                         taskVars, bufferVars, helpPage>>

\* p.mutex.Lock(), in Play
PlayLock ==
    /\ callerPc = "idle" /\ mutex = "free"
    /\ mutex' = "caller" /\ callerPc' = "check"
    /\ UNCHANGED <<readerOffset, isPlaying, isPaused, hasPlayer, position, doneCloses,
                   trackerPc, waiterPc>>
    /\ LockFrame

\* the two checks of Play; the deferred Unlock on an error return
PlayCheck ==
    /\ callerPc = "check"
    /\ IF PlayFails(isLoaded, audioLen, otoReady)
       THEN mutex' = "free" /\ callerPc' = "idle"
       ELSE callerPc' = "stopInternal" /\ UNCHANGED mutex
    /\ UNCHANGED <<readerOffset, isPlaying, isPaused, hasPlayer, position, doneCloses,
                   trackerPc, waiterPc>>
    /\ LockFrame

\* p.stopInternal(), in Play
PlayStopInternal ==
    /\ callerPc = "stopInternal"
    /\ hasPlayer' = FALSE /\ readerOffset' = NoReader
    /\ isPlaying' = FALSE /\ isPaused' = FALSE /\ position' = 0
    /\ callerPc' = "start"
    /\ UNCHANGED <<doneCloses, mutex, trackerPc, waiterPc>>
    /\ LockFrame

\* p.player = NewPlayer(...); p.player.Play(); the flags; p.position = 0
PlayStart ==
    /\ callerPc = "start"
    /\ hasPlayer' = TRUE /\ readerOffset' = ReaderAt(0)
    /\ isPlaying' = TRUE /\ isPaused' = FALSE /\ position' = 0
    /\ callerPc' = "makeDone"
    /\ UNCHANGED <<doneCloses, mutex, trackerPc, waiterPc>>
    /\ LockFrame

\* p.playbackDone = make(chan struct{})
PlayMakeDone ==
    /\ callerPc = "makeDone"
    /\ doneCloses' = NewChannel
    /\ waiterPc' = Replaced(waiterPc, doneCloses)
    /\ callerPc' = "spawn"
    /\ UNCHANGED <<readerOffset, isPlaying, isPaused, hasPlayer, position, mutex, trackerPc>>
    /\ LockFrame

\* go p.trackPosition()
PlaySpawn ==
    /\ callerPc = "spawn"
    /\ trackerPc' = IF trackerPc = "none" THEN "select" ELSE trackerPc
    /\ callerPc' = "unlock"
    /\ UNCHANGED <<readerOffset, isPlaying, isPaused, hasPlayer, position, doneCloses, mutex,
                   waiterPc>>
    /\ LockFrame

\* the deferred p.mutex.Unlock() of Play
PlayUnlock ==
    /\ callerPc = "unlock"
    /\ mutex' = "free" /\ callerPc' = "idle"
    /\ UNCHANGED <<readerOffset, isPlaying, isPaused, hasPlayer, position, doneCloses,
                   trackerPc, waiterPc>>
    /\ LockFrame

\* select { case <-ticker.C: ... case <-p.playbackDone: return }:
\* p.playbackDone is read here, with no lock held; a closed channel makes
\* the second case ready, and select takes any ready case
TrackerSelect ==
    /\ trackerPc = "select"
    /\ trackerPc' \in IF doneCloses > 0 THEN {"lock", "none"} ELSE {"lock"}
    /\ UNCHANGED <<readerOffset, isPlaying, isPaused, hasPlayer, position, doneCloses, mutex,
                   callerPc, waiterPc>>
    /\ LockFrame

\* p.mutex.Lock(), in trackPosition
TrackerLock ==
    /\ trackerPc = "lock" /\ mutex = "free"
    /\ mutex' = "tracker" /\ trackerPc' = "check"
    /\ UNCHANGED <<readerOffset, isPlaying, isPaused, hasPlayer, position, doneCloses,
                   callerPc, waiterPc>>
    /\ LockFrame

\* if !p.isPlaying || p.isPaused { p.mutex.Unlock(); return }
TrackerCheck ==
    /\ trackerPc = "check"
    /\ IF TickExits(isPlaying, isPaused)
       THEN mutex' = "free" /\ trackerPc' = "none"
       ELSE trackerPc' = "write" /\ UNCHANGED mutex
    /\ UNCHANGED <<readerOffset, isPlaying, isPaused, hasPlayer, position, doneCloses,
                   callerPc, waiterPc>>
    /\ LockFrame

\* p.position = elapsed and the finish check, with elapsed = time.Since(startTime)
TrackerWrite(elapsed) ==
    /\ trackerPc = "write"
    /\ LET r == TickResult(elapsed, duration) IN
       /\ position' = r.position
       /\ isPlaying' = r.isPlaying
       /\ isPaused' = IF r.finished THEN FALSE ELSE isPaused
       /\ doneCloses' = IF r.finished THEN Min(doneCloses + 1, 2) ELSE doneCloses
       /\ trackerPc' = IF r.finished THEN "return" ELSE "unlock"
    /\ UNCHANGED <<readerOffset, hasPlayer, mutex, callerPc, waiterPc>>
    /\ LockFrame

\* p.mutex.Unlock(), then back to the select or return
TrackerUnlock ==
    /\ trackerPc \in {"unlock", "return"}
    /\ mutex' = "free"
    /\ trackerPc' = IF trackerPc = "return" THEN "none" ELSE "select"
    /\ UNCHANGED <<readerOffset, isPlaying, isPaused, hasPlayer, position, doneCloses,
                   callerPc, waiterPc>>
    /\ LockFrame

\* WaitForCompletion() is called
WaitCall ==
    /\ waiterPc \in {"none", "returned"}
    /\ waiterPc' = "check"
    /\ UNCHANGED <<readerOffset, isPlaying, isPaused, hasPlayer, position, doneCloses, mutex,
                   callerPc, trackerPc>>
    /\ LockFrame

\* if p.playbackDone != nil: p.playbackDone is read, with no lock held
WaitCheck ==
    /\ waiterPc = "check"
    /\ waiterPc' = "receive"
    /\ UNCHANGED <<readerOffset, isPlaying, isPaused, hasPlayer, position, doneCloses, mutex,
                   callerPc, trackerPc>>
    /\ LockFrame

\* <-p.playbackDone: p.playbackDone is read again, with no lock held, and
\* the goroutine blocks in the receive on the channel it has read
WaitReceive ==
    /\ waiterPc = "receive"
    /\ waiterPc' = "blocked"
    /\ UNCHANGED <<readerOffset, isPlaying, isPaused, hasPlayer, position, doneCloses, mutex,
                   callerPc, trackerPc>>
    /\ LockFrame

\* The channel the waiter holds is closed.
HeldClosed ==
    \/ waiterPc = "blocked" /\ doneCloses > 0
    \/ waiterPc = "released"

\* The receive returns once the channel is closed, and WaitForCompletion
\* with it.
WaitReturn ==
    /\ HeldClosed
    /\ waiterPc' = "returned"
    /\ UNCHANGED <<readerOffset, isPlaying, isPaused, hasPlayer, position, doneCloses, mutex,
                   callerPc, trackerPc>>
    /\ LockFrame

\* ---------------------------------------------------------- specifications
Tracker ==
    \/ \E t \in TrackerStates : TrackerTick(t)
    \/ \E t \in TrackerStates : TrackerDone(t)
    \/ AdvanceTime

Next ==
    \/ \E f \in Files, o \in LoadOutcomes : LoadFile(f, o)
    \/ Play
    \/ Pause
    \/ Resume
    \/ Stop
    \/ Close
    \/ \E t \in SeekTargets : SeekTo(t)
    \/ \E v \in VolumeInputs : SetVolume(v)
    \/ Tracker

NextPkg ==
    \/ \E f \in Files, o \in LoadOutcomes : LoadFile(f, o)
    \/ Play
    \/ Pause
    \/ Resume
    \/ Stop
    \/ Close
    \/ Tracker

Spec == Init /\ [][Next]_vars
SpecPkg == InitPkg /\ [][NextPkg]_vars

\* The Go scheduler runs every runnable goroutine and the ticker keeps
\* firing: time passes and a due tick is handled.
Fairness ==
    /\ WF_vars(AdvanceTime)
    /\ WF_vars(\E t \in TrackerStates : TrackerTick(t))

\* The commands that act on the playback.
NextPlayback ==
    \/ \E f \in Files, o \in LoadOutcomes : LoadFile(f, o)
    \/ Play
    \/ Pause
    \/ Resume
    \/ Stop
    \/ Close
    \/ \E t \in SeekTargets : SeekTo(t)
    \/ Tracker

FairSpec == Init /\ [][NextPlayback]_vars /\ Fairness

\* The goroutine in WaitForCompletion() runs as every goroutine does.
FairnessWait ==
    /\ Fairness
    /\ WF_vars(WaitReturn)

\* A caller of WaitForCompletion() next to the commands that end or replace
\* a playback.
NextWait ==
    \/ \E f \in Files, o \in LoadOutcomes : LoadFile(f, o)
    \/ Play
    \/ Stop
    \/ Close
    \/ Tracker
    \/ WaitCall \/ WaitCheck \/ WaitReceive \/ WaitReturn

SpecWait == InitStarted /\ [][NextWait]_vars /\ FairnessWait

\* The help overlay over a playing song: the key that opens it, the keys
\* that close it, the App's tracking task and the player's tracker.
NextHelp ==
    \/ ShowHelp
    \/ CloseHelp
    \/ TrackRealPlaybackTick
    \/ \E t \in TrackerStates : TrackerTick(t)
    \/ AdvanceTime

SpecHelp == InitHelp /\ [][NextHelp]_vars

NextLyrics == \E t \in LookupTimes : FindLyric(t)
SpecLyrics == InitLyrics /\ [][NextLyrics]_vars

NextApp ==
    \/ \E load \in CallOutcomes, start \in CallOutcomes : TogglePlayPause(load, start)
    \/ \E i \in 0..(NumSongs - 1), load \in CallOutcomes, start \in CallOutcomes :
          PlaySelectedSong(i, load, start)
    \/ \E load \in CallOutcomes, start \in CallOutcomes : AppNext(load, start)
    \/ \E load \in CallOutcomes, start \in CallOutcomes : AppPrevious(load, start)
    \/ \E i \in 0..(NumSongs - 1) : SelectSong(i)
    \/ AppStop
    \/ \E roll \in BOOLEAN : ClearScores(roll)
    \/ \E pos \in AppPositions, playing \in BOOLEAN : AppTick(pos, playing)
    \/ AppTaskExit
    \/ \E roll \in BOOLEAN : TrackerDraw(roll)
    \/ \E roll \in BOOLEAN : DisplayDraw(roll)
NextLock ==
    \/ PlayLock \/ PlayCheck \/ PlayStopInternal \/ PlayStart \/ PlayMakeDone
    \/ PlaySpawn \/ PlayUnlock
    \/ TrackerSelect \/ TrackerLock \/ TrackerCheck
    \/ \E e \in 0..MaxElapsed : TrackerWrite(e)
    \/ TrackerUnlock
    \/ WaitCall \/ WaitCheck \/ WaitReceive \/ WaitReturn
SpecLock == InitLoaded /\ [][NextLock]_vars
NextDecoded ==
    \/ \E init \in CallOutcomes : LoadDecoded(init)
    \/ Play
    \/ \E t \in SeekTargets : SeekTo(t)
SpecDecoded == InitDecoded /\ [][NextDecoded]_vars
NextVolume ==
    \/ NextDecoded
    \/ \E v \in VolumeInputs : SetVolume(v)
SpecVolume == InitDecoded /\ [][NextVolume]_vars

SpecApp == Init /\ [][NextApp]_vars
NextChance == \E pos \in BeatPositions : EvaluateChance(pos)
SpecChance == InitChance /\ [][NextChance]_vars
NextTasks ==
    \/ NextApp
    \/ TickBegin
    \/ \E pos \in AppPositions : TickRead(pos)
    \/ \E playing \in BOOLEAN : TickTest(playing)
SpecTasks == Init /\ [][NextTasks]_vars
SpecAppUnordered == InitUnordered /\ [][NextApp]_vars

TypeOK ==
    /\ variant \in {"part_007", "pkg_player"}
    /\ isLoaded \in BOOLEAN /\ isPlaying \in BOOLEAN /\ isPaused \in BOOLEAN
    /\ hasPlayer \in BOOLEAN /\ otoReady \in BOOLEAN
    /\ position \in 0..MaxElapsed
    /\ duration \in 0..MaxOf({MaxDuration, MaxStreamDuration})
    /\ volume \in 0..100
    /\ doneCloses \in 0..2
    /\ IsABag(trackers) /\ BagToSet(trackers) \subseteq TrackerStates
    /\ BagCardinality(trackers) <= MaxTrackers
    /\ sinceCmd \in 0..SinceCap
    /\ mutex \in {"free", "caller", "tracker"}
    /\ callerPc \in {"idle", "check", "stopInternal", "start", "makeDone",
                      "spawn", "unlock"}
    /\ trackerPc \in {"none", "select", "lock", "check", "write", "unlock",
                       "return"}
    /\ waiterPc \in {"none", "check", "receive", "blocked", "orphaned",
                     "released", "returned"}
    /\ helpPage \in {"closed", "open", "openWasPlaying"}
    /\ appTasks \in 0..MaxTasks
    /\ tickPc \in {"sleep", "read", "test"}
    /\ playerStopped \in BOOLEAN /\ sinceStop \in BOOLEAN
    /\ loadResult \in {"none", "ok", "initerr", "index", "divide"}
    /\ \A i \in DOMAIN pcmData : pcmData[i] \in 0..255
    /\ readerOffset >= NoReader
    /\ hitChance \in Nat

\* The playback has run to its end: the state a finishing tick leaves.
Finished == (~isPlaying) /\ (~isPaused) /\ position = duration /\ doneCloses = 1

\* A tick has written Position since the last command.
TickWrote == lastTick \in {"fresh", "stale"}

\* ------------------------------------------------------------------ claims

\* C1: after a SeekTo(t), until the next command, Position is t plus the time
\* elapsed since the seek: never below t and never more than the elapsed
\* time above it.
C1_SeekNotOverwritten ==
    lastCmd = "SeekTo" =>
        /\ position >= base
        /\ sinceCmd < SinceCap => position <= base + sinceCmd

\* C2: only the tracker started by the most recent Play writes Position; a
\* tracker spawned before a later Stop, LoadFile or Play writes nothing.
C2_OnlyLatestTrackerWrites == lastTick # "stale"

\* C3: in every reachable state 0 <= Position <= duration.
C3_PositionInRange == 0 <= position /\ position <= duration

\* C3 witness: a SeekTo beyond the duration while Playing left Position at
\* the duration.
C3_Witness ==
    /\ lastCmd = "SeekTo" /\ lastArg > duration /\ duration > 0
    /\ isPlaying /\ position = duration

\* C4: while Playing with no command issued, each tick writes a value that
\* is at least the value the previous tick wrote.
C4_TickWritesNonDecreasing ==
    [][(TickWrote /\ TickWrote') => position' >= position]_vars

\* C5: while the player is Paused or Stopped a tracker tick leaves Position
\* as it is.
C5_FrozenWhileNotPlaying ==
    [][((~isPlaying) /\ \E t \in TrackerStates : TrackerTick(t))
          => position' = position]_vars

\* C5 witness: a tick was handled after Pause and Position kept its value.
C5_Witness == isPaused /\ lastCmd = "Pause" /\ lastTick = "exit" /\ position > 0

\* C6: after a successful Play, unless another command follows, the player
\* reaches Finished: not playing, Position = duration, completion signalled.
C6_PlayEventuallyFinishes == (lastCmd = "Play") ~> (Finished \/ lastCmd # "Play")

\* C6 witness: a track of non-zero duration played to its end after Play.
C6_Witness == lastCmd = "Play" /\ Finished /\ duration > 0

\* C7: once Finished, a tracker tick writes nothing: Position stays at the
\* duration and the tick only ends its tracker.
C7_FinishedStaysFinished ==
    [][(Finished /\ \E t \in TrackerStates : TrackerTick(t))
          => (Finished' /\ lastTick' = "exit")]_vars

\* C7 witness: a second tracker handled a tick after the finishing one.
C7_Witness == lastCmd = "Play" /\ Finished /\ lastTick = "exit" /\ duration > 0

\* C8: the completion channel is closed at most once, and only by the tick
\* that moves the player from Playing to Finished.
C8_DoneClosedOnce ==
    /\ [](doneCloses <= 1)
    /\ [][doneCloses' > doneCloses => (isPlaying /\ Finished')]_vars

\* C8 witness: a tick has finished the playback and closed the channel while
\* another tracker is still alive.
C8_Witness ==
    /\ lastCmd = "Play" /\ Finished /\ duration > 0
    /\ BagCardinality(trackers) > 0

\* C9: after Pause then Resume, Position is not reset: until the next
\* command it is never below the value it had before the pause.
C9_ResumeKeepsPosition == lastCmd = "Resume" => position >= base

\* C10: Play while Paused resumes from the retained Position.
C10_PlayWhilePausedKeepsPosition ==
    [][(isPaused /\ Play) => position' = position]_vars

\* C16: SetVolume(v) stores v clamped to [0, 1]: a call with v < 0 is the
\* same step as SetVolume(0), a call with v > 1 the same step as
\* SetVolume(1), a call with v inside the range stores v, and the stored
\* volume is inside the range in every reachable state.
C16_SetVolumeClamps ==
    /\ [](0 <= volume /\ volume <= 100)
    /\ [][\A v \in VolumeInputs :
            SetVolume(v) => IF v < 0 THEN SetVolume(0)
                            ELSE IF v > 100 THEN SetVolume(100)
                            ELSE volume' = v]_vars

\* C16 witness: a SetVolume below the range has stored 0 on a loaded player.
C16_Witness == volume = 0 /\ isLoaded

\* C17: a LoadFile that returns an error leaves the player as it was:
\* isPlaying, isPaused, Position, duration, sample rate, channel count,
\* buffer, device session and the loaded track keep their values.
C17_LoadFileErrorKeepsState ==
    [][(\E f \in Files, o \in LoadOutcomes \ {"ok"} : LoadFile(f, o))
          => UNCHANGED <<isLoaded, isPlaying, isPaused, hasPlayer, otoReady,
                         audioLen, sampleRate, channels, duration, position>>]_vars

\* C18: Play on a player with no track loaded, or with no audio context,
\* leaves the state unchanged: the player does not become Playing, no
\* tracker is started, and Position, the device session and the completion
\* channel are untouched.
C18_PlayErrorKeepsState ==
    [][(((~isLoaded) \/ ~otoReady) /\ Play)
          => UNCHANGED <<playerVars, trackers>>]_vars

\* C18 witness: a player on which every LoadFile so far has failed; Play
\* returns its error here, and the state after it is this same state.
C18_Witness ==
    /\ lastCmd = "LoadFileErr" /\ (~isLoaded) /\ (~otoReady)
    /\ (~isPlaying) /\ (~hasPlayer) /\ trackers = EmptyBag /\ doneCloses = 0

\* C19: SeekTo preserves the Playing/Paused disposition: a player that was
\* Playing is Playing after it, one that was Paused is still Paused.
C19_SeekKeepsDisposition ==
    [][(\E t \in SeekTargets : SeekTo(t))
          => (isPlaying' = isPlaying /\ isPaused' = isPaused)]_vars

\* C20: SeekTo returns an error only when no track is loaded: in every state
\* with a track loaded (directly after LoadFile, Playing, Paused, Stopped)
\* it succeeds.
C20_SeekSucceedsWhenLoaded == SeekFails(isLoaded, hasPlayer) <=> ~isLoaded

\* The timeline [(0s,A),(3s,B),(6s,empty)], in half seconds.
ExampleLines == LoadedLines(<<0, 6, 12>>)

\* C14: on a validly ordered timeline findCurrentLyricIndex(p) is the index
\* of the last line whose timestamp is <= p, or -1 when there is none; for
\* [(0s,A),(3s,B),(6s,empty)] it is 1 at 4s and 0 at 0.5s and at 0s.
\* FindLyricAtTime returns the entry at that index, or nil for -1.
C14_ActiveIndexIsLastReached ==
    /\ activeIndex \in (0 - 1)..(Len(lyricLines) - 1)
    /\ activeIndex >= 0 => lyricLines[activeIndex + 1].Time <= currentTime
    /\ \A i \in 1..Len(lyricLines) :
          lyricLines[i].Time <= currentTime => i - 1 <= activeIndex
    /\ lyricAtTime = IF activeIndex = 0 - 1 THEN Nil
                     ELSE Entries(lyricLines)[activeIndex + 1]
    /\ findCurrentLyricIndex(ExampleLines, 8) = 1
    /\ findCurrentLyricIndex(ExampleLines, 1) = 0
    /\ findCurrentLyricIndex(ExampleLines, 0) = 0

\* C14 witness: a lookup that falls between two lines of which the earlier
\* shares its timestamp with the line before it.
C14_Witness ==
    /\ Len(lyricLines) = 3 /\ activeIndex = 1
    /\ lyricLines[1].Time = lyricLines[2].Time
    /\ lyricLines[2].Time < currentTime /\ currentTime < lyricLines[3].Time
    /\ lyricAtTime = [Time |-> lyricLines[2].Time, Text |-> 1]

\* C15: for a fixed validly ordered timeline findCurrentLyricIndex is
\* monotonically non-decreasing: p1 <= p2 implies index(p1) <= index(p2).
C15_ActiveIndexMonotone == prevTime <= currentTime => prevIndex <= activeIndex

\* C15 witness: two lookups, the later at a later time and two lines further.
C15_Witness ==
    /\ prevTime >= 0 /\ prevTime < currentTime
    /\ prevIndex >= 0 /\ activeIndex = prevIndex + 2

\* Some handler runs play() for the song cs.
PlaysSong(cs) == \E load \in CallOutcomes, start \in CallOutcomes : AppPlay(cs, load, start)

\* C11: play() while isPaused is true for the same song (a resume) leaves
\* the karaoke session unchanged: score, streak, hit count, total line count
\* and every line's IsHit and IsActive flag.
C11_ResumeKeepsSession ==
    [][(appIsPaused /\ currentSong = playingSong /\ PlaysSong(currentSong))
          => UNCHANGED <<karaokeScore, streak, hitLyrics, totalLyrics,
                         lyricLines>>]_vars

\* C12: every play() that starts a new playback rather than resuming the
\* same paused song zeroes score, streak, accuracy, hit count and every
\* line's hit and active flag.
C12_NewPlaybackResetsSession ==
    [][\A cs \in 0..(NumSongs - 1) :
          (PlaysSong(cs) /\ ~(appIsPaused /\ cs = playingSong))
             => /\ karaokeScore' = 0 /\ streak' = 0 /\ accuracy' = 0
                /\ hitLyrics' = 0
                /\ \A i \in DOMAIN lyricLines' :
                      (~lyricLines'[i].IsHit) /\ ~lyricLines'[i].IsActive]_vars

\* C13: between two resets of the streak the streak-5 bonus of 500 points is
\* awarded exactly once, by the hit that raises the streak from 4 to 5, and
\* by no later hit.
C13_StreakFiveBonusOnce ==
    /\ [](milestone5 = IF streak >= 5 THEN 1 ELSE 0)
    /\ [][milestone5' > milestone5
            => (streak = 4 /\ streak' = 5
                /\ karaokeScore' >= karaokeScore + HitPoints(4, 1) + 500)]_vars

\* C13 witness: a sixth hit has been made after the bonus.
C13_Witness == streak = 6 /\ hitLyrics = 6 /\ milestone5 = 1 /\ appIsPlaying

\* C21: after Stop() from any state, and until the next command, the player
\* is not playing and not paused, Position is 0 and the device session is
\* released; Stop() leaves the loaded track (isLoaded, buffer, duration,
\* sample rate, channels, volume) as it is, and a second Stop() changes
\* nothing.
C21_StopPostcondition ==
    /\ [](lastCmd = "Stop"
            => ((~isPlaying) /\ (~isPaused) /\ position = 0 /\ ~hasPlayer))
    /\ [][Stop => UNCHANGED <<isLoaded, otoReady, audioLen, duration,
                              sampleRate, channels, volume>>]_vars
    /\ [][(lastCmd = "Stop" /\ Stop) => UNCHANGED <<playerVars, trackers>>]_vars

\* C21 witness: Stop() has ended a playback of a track of non-zero duration
\* and the tracker of that playback has since handled a tick.
C21_Witness ==
    /\ lastCmd = "Stop" /\ lastTick = "exit" /\ duration > 0
    /\ isLoaded /\ (~isPlaying) /\ position = 0

\* C22: in every reachable App state 0 <= hitLyrics <= totalLyrics whenever
\* totalLyrics > 0, so the accuracy lies in [0, 100].
C22_HitsWithinTotal ==
    /\ totalLyrics > 0 => (0 <= hitLyrics /\ hitLyrics <= totalLyrics)
    /\ 0 <= accuracy /\ accuracy <= 100

\* The timestamps of the lines, in order.
TimesOf(lines) == [i \in DOMAIN lines |-> lines[i].Time]

\* C23: a lyric source with a timestamp smaller than its predecessor is
\* rejected: the timeline findCurrentLyricIndex and scoring use never has
\* decreasing timestamps.
C23_UnorderedTimelineRejected == Chronological(TimesOf(lyricLines))

ReadsDoneUnlocked == waiterPc \in {"check", "receive"} \/ trackerPc = "select"
\* The goroutine in Play() holds p.mutex and is about to write
\* p.playbackDone.
WritesDoneLocked == mutex = "caller" /\ callerPc = "makeDone"

\* C25: no shared field of the AudioPlayer is read outside the mutex while
\* another goroutine may write it.
C25_NoUnlockedReadDuringWrite == ~(ReadsDoneUnlocked /\ WritesDoneLocked)

\* C26: at most one trackRealPlayback goroutine is alive at any time.
C26_SingleTrackingTask == appTasks <= 1

\* C27: from the return of stop() to the next play command a.position is 0
\* and the score, the streak, the hit count and every per-line flag are zero.
C27_StoppedStaysZero ==
    sinceStop =>
        /\ appPosition = 0
        /\ karaokeScore = 0 /\ streak = 0 /\ hitLyrics = 0
        /\ \A i \in DOMAIN lyricLines :
              (~lyricLines[i].IsHit) /\ (~lyricLines[i].IsActive)

\* C28: SeekTo(t) positions the reader at byte offset
\* floor(t in seconds) * sampleRate * channels * 2, with t clamped to
\* [0, duration], for mono and for stereo tracks.
C28_SeekByteOffset ==
    lastCmd = "SeekTo" =>
        readerOffset = WholeSeconds(ClampSeek(lastArg, duration))
                         * sampleRate * channels * 2

\* The decoded stream has reached convertToRawPCM.
Converted == loadResult \in {"ok", "index", "divide"}
\* The int16 the buffer holds at byte offset off.
Int16At(buf, off) == Int16LE(buf[off + 1], buf[off + 2])

\* C29: for channels in {1, 2} convertToRawPCM writes inside the buffer, the
\* buffer is frames*channels*2 bytes long and holds, at byte offset
\* (i*channels + c)*2, the quantization of clamp(sample*volume, -1, 1) of
\* frame i and channel c as a little-endian int16 within [-32767, 32767].
C29_BufferLayout ==
    (Converted /\ decoded.channels \in {1, 2}) =>
        /\ loadResult # "index"
        /\ Len(pcmData) = Len(decoded.samples) * decoded.channels * 2
        /\ \A i \in 0..(Len(decoded.samples) - 1), c \in 0..(decoded.channels - 1) :
              LET off == (i * decoded.channels + c) * 2
                  v == ToInt16(ClampUnit(decoded.samples[i + 1][c + 1] * volume))
              IN  /\ off + 1 < Len(pcmData)
                  /\ Int16At(pcmData, off) = v
                  /\ 0 - 32767 <= v /\ v <= 32767

\* C30: a load of a format with 0 channels or sample rate 0 returns an
\* error: no crash, no buffer built, the player not marked loaded.
C30_ZeroFormatRejected ==
    (loadResult # "none" /\ (decoded.channels = 0 \/ decoded.rate = 0)) =>
        /\ loadResult \in {"initerr", "invalid"}
        /\ pcmData = <<>>
        /\ ~isLoaded

\* C31: after a successful LoadFile the duration is the exact length of the
\* track, sub-second part included: duration (in ticks) times the samples
\* per second equals the sample count (buffer length / 2) times the ticks
\* per second.
C31_DurationExact ==
    lastCmd = "LoadFile" =>
        duration * (sampleRate * channels) = (audioLen \div 2) * TicksPerSecond

\* A scoring tick: updateScore() run by a queued draw.
ScoringTick == \E roll \in BOOLEAN : TrackerDraw(roll) \/ DisplayDraw(roll)

\* C32: a line is evaluated at most once between two loads or resets of the
\* timeline.  A scoring tick leaves every line already marked active as it
\* is, marks at most the line findCurrentLyricIndex returns for the
\* position, counts a hit only for a line it has just marked active; and
\* in every state a line that is hit is marked active.
C32_LineEvaluatedOnce ==
    /\ [](\A i \in DOMAIN lyricLines : lyricLines[i].IsHit => lyricLines[i].IsActive)
    /\ [][ScoringTick =>
            /\ DOMAIN lyricLines' = DOMAIN lyricLines
            /\ \A i \in DOMAIN lyricLines :
                  /\ lyricLines[i].IsActive => lyricLines'[i] = lyricLines[i]
                  /\ lyricLines'[i] # lyricLines[i] =>
                        /\ i - 1 = findCurrentLyricIndex(lyricLines, appPosition)
                        /\ lyricLines'[i].IsActive
            /\ hitLyrics' # hitLyrics =>
                  \E i \in DOMAIN lyricLines :
                     /\ ~lyricLines[i].IsActive /\ lyricLines'[i].IsHit
                     /\ hitLyrics' = hitLyrics + 1]_vars

\* C32 witness: while playing, the position is back at a line that was
\* missed (active, not hit) after a later line has been reached.
C32_Witness ==
    /\ appIsPlaying
    /\ \E i, j \in DOMAIN lyricLines :
          /\ i < j /\ lyricLines[j].IsActive
          /\ lyricLines[i].IsActive /\ ~lyricLines[i].IsHit
          /\ i - 1 = findCurrentLyricIndex(lyricLines, appPosition)

\* The hit chance with the beat bonus on the even beat phases, in
\* thousandths, times len.
ChanceOnEvenBeats(n, lyricIndex, len, phase) ==
    Min((BaseChance + Min(n * StreakBonusStep, StreakBonusCap)
           + (IF phase % 2 = 0 THEN OnBeatBonus ELSE 0)) * len
          + lyricIndex * ProgressFactor,
        ChanceCap * len)

\* C33: the beat phase is (position in ms / 250) mod 4, the hit chance
\* carries the beat bonus on the phases 0 and 2 and not on 1 and 3, and
\* lies within [0.70, 0.95].
C33_BeatBonusOnEvenPhases ==
    hitChance > 0 =>
        /\ beatPhase = ((appPosition * 100) \div 250) % 4
        /\ hitChance = ChanceOnEvenBeats(streak,
                           findCurrentLyricIndex(lyricLines, appPosition),
                           Len(lyricLines), beatPhase)
        /\ BaseChance * Len(lyricLines) <= hitChance
        /\ hitChance <= ChanceCap * Len(lyricLines)

\* play() called while not paused: a fresh play.
FreshPlay ==
    /\ ~appIsPaused
    /\ \E cs \in 0..(NumSongs - 1), load \in CallOutcomes, start \in CallOutcomes :
          AppPlay(cs, load, start)
\* The score-clear command.
ScoreClear == \E roll \in BOOLEAN : ClearScores(roll)

BufferAt(vol) == convertToRawPCM(decoded.samples, channels, vol).data

C36_FlagsEncodeOneState ==
    /\ ~(isPlaying /\ isPaused)
    /\ (isPlaying \/ isPaused) => (isLoaded /\ hasPlayer)

\* C36 witness: a track playing again after Pause() and Resume().
C36_Witness ==
    lastCmd = "Resume" /\ isPlaying /\ ~isPaused /\ isLoaded /\ hasPlayer

\* C37: whenever the player is Playing, a tracker goroutine is alive to
\* write Position on its next tick, also after Pause() then Resume() and
\* after SeekTo.
C37_PlayingHasLiveTracker == isPlaying => trackers # EmptyBag

\* The goroutine in WaitForCompletion() is blocked in the receive on the
\* channel of the playback that is running.
WaitsForPlayback == waiterPc = "blocked" /\ isPlaying

\* C38: a caller blocked in WaitForCompletion on a running playback is
\* eventually released: the playback runs to its end, or Stop(), Close(),
\* a LoadFile or a new Play() ends it, and each of these releases the caller.
C38_WaiterReleased == WaitsForPlayback ~> (waiterPc = "returned")

\* The App reports Playing at a position the player has reached, and its
\* tracking task is alive.
AppStillPlaying ==
    /\ appIsPlaying /\ ~appIsPaused
    /\ appPosition <= position /\ appPosition < appDuration
    /\ appTasks >= 1

\* C39: while the help overlay opened over a playing song holds the player
\* paused, and once closing it has resumed the player, the App still reports
\* Playing at its pre-help position with its tracking task alive: no tick
\* of the tracking task marks the song as finished.
C39_HelpKeepsPlaying ==
    /\ (helpPage = "openWasPlaying" /\ isPaused) => AppStillPlaying
    /\ (helpPage = "closed" /\ lastCmd = "Resume" /\ isPlaying) => AppStillPlaying

====
